---------------------------- MODULE Spec2Model ----------------------------
(***************************************************************************)
(* State-machine model of the deck generator: the App session              *)
(* (src/App.tsx), the generation client (src/services/geminiService.ts)    *)
(* and the deck player's audio playback (src/components/Deck.tsx).         *)
(*                                                                         *)
(* JavaScript runs every handler and every promise continuation to         *)
(* completion, so one action is one handler or one continuation between    *)
(* two awaits.  Slide positions are 0-based as in the source; TLA+         *)
(* sequences are 1-based, so slide k of a sequence has position k - 1.     *)
(***************************************************************************)
EXTENDS Integers, Sequences, FiniteSets, Bags, TLC

\* Number of generateContent invocations explored in one session.
MaxRuns == 2

----------------------------------------------------------------------------
(* Values *)

\* JavaScript undefined / null.
Undefined == "<undefined>"

\* A promise that has not settled.
Pending == "<pending>"

\* A promise that rejected.
Rejected == "<rejected>"

\* JavaScript truthiness of a string-or-undefined value.
Truthy(x) == x \notin {Undefined, ""}

\* types.ts: enum AppState.
AppState == {"INPUT", "LOADING", "DECK", "ERROR"}

\* types.ts: enum SlideType.
SlideType == {"INTRO", "DEEP_DIVE", "VOCABULARY", "SCENARIO", "CONCLUSION"}

\* types.ts: interface Slide, the fields generateContent reads.
Slide(type, visualPrompt, audioScript) ==
    [type |-> type, visualPrompt |-> visualPrompt, audioScript |-> audioScript]

\* Decks the text service may return (types.ts: DeckContent.slides).  They mix
\* slide kinds, present / empty / missing prompts and scripts, and lengths.
DeckA == << Slide("INTRO", "prompt", "script"), Slide("DEEP_DIVE", "prompt", "") >>
DeckB == << Slide("DEEP_DIVE", "", "script"), Slide("SCENARIO", Undefined, "script") >>
DeckC == << Slide("DEEP_DIVE", Undefined, Undefined) >>
Decks == {DeckA, DeckB, DeckC}

NoDeck == << >>

Positions(deck) == 0..(Len(deck) - 1)

SlideAt(deck, i) == deck[i + 1]

\* The inline image data the image service returns for the request of position i.
ImageData(i) == << "img0", "img1" >>[i + 1]

\* geminiService.ts line 108: the data URL built from the inline data.
DataUrl(data) ==
    CASE data = "img0" -> "data:image/png;base64,img0"
      [] data = "img1" -> "data:image/png;base64,img1"

\* The base64 PCM payload the speech service returns for the request of position i.
AudioData(i) == << "pcm0", "pcm1" >>[i + 1]

\* The two user-facing error messages (App.tsx lines 103 and 105).
ConfigMessage == "API configuration error. Please select a valid project with an active billing account."
GenericMessage == "Failed to generate content. Please check your connection and try again."

\* Text the user can have in the topic box, and the topic a shared link carries.
SharedTopic == "supply and demand"
Topics == {"", " ", SharedTopic}

\* String.prototype.trim on the topics above.
Trim(t) == IF t = " " THEN "" ELSE t

----------------------------------------------------------------------------
(* geminiService.ts *)

\* Error messages a failing deck call can carry.
NotFoundMessages == {"Requested entity was not found.",
                     "404 NOT_FOUND: Requested entity was not found."}
OtherMessages == {"No content generated", "Unexpected end of JSON input",
                  "Failed to fetch", "Cannot read properties of undefined (reading 'map')"}

\* err.message?.includes("Requested entity was not found")
IncludesNotFound(message) == message \in NotFoundMessages

\* What the text endpoint can do: answer with JSON text of a deck, with JSON that
\* carries no slides, with no text, with text that is not JSON, or fail.
DeckResponses ==
    [kind : {"deck"}, deck : Decks, message : {Undefined}]
    \cup [kind : {"noSlides", "noText", "notJson"}, deck : {NoDeck}, message : {Undefined}]
    \cup [kind : {"error"}, deck : {NoDeck},
          message : NotFoundMessages \cup {"Failed to fetch"}]

\* generateDeckText: the awaited result, a returned value or a thrown error.
generateDeckText(resp) ==
    CASE resp.kind = "error" ->
            [ok |-> FALSE, deck |-> NoDeck, hasSlides |-> FALSE, message |-> resp.message]
      [] resp.kind = "noText" ->
            [ok |-> FALSE, deck |-> NoDeck, hasSlides |-> FALSE, message |-> "No content generated"]
      [] resp.kind = "notJson" ->
            [ok |-> FALSE, deck |-> NoDeck, hasSlides |-> FALSE,
             message |-> "Unexpected end of JSON input"]
      [] resp.kind = "noSlides" ->
            [ok |-> TRUE, deck |-> NoDeck, hasSlides |-> FALSE, message |-> Undefined]
      [] resp.kind = "deck" ->
            [ok |-> TRUE, deck |-> resp.deck, hasSlides |-> TRUE, message |-> Undefined]

\* A response of an asset endpoint: whether the client constructor and the call
\* return or throw, and the candidates of the response, each with or without
\* content and with its parts ("inline" for a part that carries inlineData).
Candidate(content, parts) == [content |-> content, parts |-> parts]

AssetResponse(sdk, call, candidates) ==
    [sdk |-> sdk, call |-> call, candidates |-> candidates]

\* What an asset endpoint does in a session: return inline data, return a
\* response without candidates, fail, or fail to construct the client (the SDK
\* throws "An API Key must be set when running in a browser").
InlineResponse == AssetResponse("ok", "ok", << Candidate(TRUE, << "inline" >>) >>)
NoDataResponse == AssetResponse("ok", "ok", << >>)
ErrorResponse == AssetResponse("ok", "throws", << >>)
SdkResponse == AssetResponse("throws", "ok", << >>)
AssetResponses == {InlineResponse, NoDataResponse, ErrorResponse, SdkResponse}

RECURSIVE FirstInlineData(_, _)
\* Lines 105-112: the loops over candidates and parts.  A candidate without
\* content throws a TypeError and running out of candidates throws
\* "No image data"; the catch of line 113 turns both into undefined.
FirstInlineData(i, candidates) ==
    IF Len(candidates) = 0 THEN Undefined
    ELSE LET candidate == Head(candidates)
         IN  IF ~candidate.content THEN Undefined
             ELSE IF \E k \in 1..Len(candidate.parts) : candidate.parts[k] = "inline"
             THEN DataUrl(ImageData(i))
             ELSE FirstInlineData(i, Tail(candidates))

\* generateDeckImage for the request of position i: a data URL, undefined, or
\* a throw (line 87 is outside the try).
generateDeckImage(i, resp) ==
    IF resp.sdk = "throws" THEN Rejected
    ELSE IF resp.call = "throws" THEN Undefined
    ELSE FirstInlineData(i, resp.candidates)

\* generateSlideAudio for the request of position i: the payload, undefined, or
\* a throw (line 120 is outside the try); line 152 reads the first part of the
\* first candidate through optional chaining.
generateSlideAudio(i, resp) ==
    IF resp.sdk = "throws" THEN Rejected
    ELSE IF resp.call = "throws" THEN Undefined
    ELSE IF Len(resp.candidates) = 0 THEN Undefined
    ELSE LET candidate == Head(resp.candidates)
         IN  IF ~candidate.content \/ Len(candidate.parts) = 0 THEN Undefined
             ELSE IF Head(candidate.parts) = "inline" THEN AudioData(i)
             ELSE Undefined

----------------------------------------------------------------------------
(* App.tsx generateContent: the pure parts *)

\* Variant of the filter that keys on the prompt alone.
AnyPrompt(slide) == Truthy(slide.visualPrompt)

\* Line 47: the filter that selects the slides that get an image.
EligibleForImage(slide) == slide.type = "DEEP_DIVE" /\ Truthy(slide.visualPrompt)

\* Lines 45-47: the slides with visuals, each with its position in the deck.
slidesWithVisuals(deck) ==
    LET items == [k \in 1..Len(deck) |-> [slide |-> deck[k], index |-> k - 1]]
        Keep(item) == EligibleForImage(item.slide)
    IN  SelectSeq(items, Keep)

\* Lines 52-55: one image promise; generateDeckImage is called unless the prompt
\* is falsy.  "called" records whether the call was issued.
StartImage(item) ==
    IF ~Truthy(item.slide.visualPrompt)
    THEN [index |-> item.index, called |-> FALSE, value |-> Undefined]
    ELSE [index |-> item.index, called |-> TRUE, value |-> Pending]

\* Variant that narrates every slide whose script field is present, "" included.
AnyScript(slide) == slide.audioScript # Undefined

\* Line 66: whether the narration call is issued for a slide.
HasScript(slide) == Truthy(slide.audioScript)

\* Lines 64-67: one audio promise per slide of the deck.
StartAudio(slide, index) ==
    IF ~HasScript(slide)
    THEN [index |-> index, called |-> FALSE, value |-> Undefined]
    ELSE [index |-> index, called |-> TRUE, value |-> Pending]

\* Lines 52-61.
imagePromises(deck) ==
    LET items == slidesWithVisuals(deck)
    IN  [k \in 1..Len(items) |-> StartImage(items[k])]

\* Lines 64-73.
audioPromises(deck) == [k \in 1..Len(deck) |-> StartAudio(deck[k], k - 1)]

\* Lines 53-60: the try/catch around one image call; result is what the client
\* call produced (a URL, undefined, or a throw).  Gives what the promise
\* settles with: the url of { index, url }, or Rejected if the throw escapes.
ImageGuard(result) == IF result = Rejected THEN Undefined ELSE result

\* Variant without the per-call catch: a rejection reaches Promise.all.
AudioUnguarded(result) == result

\* Lines 65-72: the try/catch around one audio call.
AudioGuard(result) == IF result = Rejected THEN Undefined ELSE result

\* Lines 76-79: Promise.all resolves once every promise of both groups has settled.
GroupSettled(promises) == \A k \in 1..Len(promises) : promises[k].value # Pending

\* Variant that awaits the image group alone.
ImagesSettled(images, audio) == GroupSettled(images)

AllSettled(images, audio) == GroupSettled(images) /\ GroupSettled(audio)

\* Variant that keys a result by its slot in the result array.
SlotKey(results, k) == k - 1

\* The key under which forEach stores result k of a results array.
ResultKey(results, k) == results[k].index

\* Lines 81-89: forEach over the results, keeping the truthy ones; a later
\* result overwrites an earlier one with the same key.
RECURSIVE FoldResults(_, _, _)
FoldResults(results, k, map) ==
    IF k > Len(results) THEN map
    ELSE LET key == ResultKey(results, k)
             next == IF Truthy(results[k].value)
                     THEN [i \in (DOMAIN map) \cup {key} |->
                             IF i = key THEN results[k].value ELSE map[i]]
                     ELSE map
         IN  FoldResults(results, k + 1, next)

EmptyMap == [i \in {} |-> Undefined]

imagesMap(imagesResults) == FoldResults(imagesResults, 1, EmptyMap)

audioMap(audioResults) == FoldResults(audioResults, 1, EmptyMap)

\* Lines 91-95: the bundle handed to setGeneratedData.
Bundle(deck, images, audio) ==
    [present |-> TRUE, deck |-> deck, images |-> imagesMap(images),
     audio |-> audioMap(audio)]

\* useState<GeneratedAsset | null>(null): no bundle.
NoData == [present |-> FALSE, deck |-> NoDeck, images |-> EmptyMap, audio |-> EmptyMap]

\* Lines 101-106: the message the catch block shows for an error.
ErrorMessageFor(message) ==
    IF IncludesNotFound(message) THEN ConfigMessage ELSE GenericMessage

\* Record lookup with JavaScript's undefined for a missing key.
Lookup(map, i) == IF i \in DOMAIN map THEN map[i] ELSE Undefined

----------------------------------------------------------------------------
(* State *)

VARIABLES
    state,           \* App: useState<AppState>
    competency,      \* App: the topic box
    generatedData,   \* App: the published bundle, or NoData
    error,           \* App: the error message, or Undefined
    hasInitialized,  \* App: the ref that guards the initial effect
    effectFires,     \* App: firings of the initial effect still to come at mount
    autoStart,       \* what the initial effect read from the URL and started
    urlTopic,        \* the topic parameter of the page URL, "" when absent
    aistudio,        \* whether window.aistudio exists
    runs,            \* the generateContent invocations in flight (a bag of records)
    started,         \* how many invocations have been made
    ended,           \* how the invocation that finished last ended
    player,          \* Deck: slide index, mute flag, audio element, object URL
    effectPc,        \* Deck: position inside the playAudio effect
    leaked,          \* object URLs left unrevoked by unmounted players
    crashed,         \* the Deck threw while rendering and React unmounted the page
    arg,             \* the argument of a function examined on its own
    ret,             \* what that function returned, NotCalled before the call
    quiz             \* QuizCard: the question's correctIndex and the card's state

vars == << state, competency, generatedData, error, hasInitialized, effectFires,
           autoStart, urlTopic, aistudio, runs, started, ended, player, effectPc,
           leaked, crashed, arg, ret, quiz >>

\* The locals of a generateContent invocation at its first line.
NewRun ==
    [pc |-> "start", deckCalls |-> 0, deckResult |-> "none", deck |-> NoDeck,
     images |-> << >>, audio |-> << >>, outOfOrder |-> FALSE, reselected |-> FALSE]

\* How many calls a group of promises issued.
Calls(promises) == Cardinality({k \in 1..Len(promises) : promises[k].called})

\* The record kept of an invocation that returned ("done", "failed") or whose
\* promise rejected ("rejected").
EndOf(run, how, message, published) ==
    [how |-> how, deckCalls |-> run.deckCalls, deckResult |-> run.deckResult,
     imageCalls |-> Calls(run.images), audioCalls |-> Calls(run.audio),
     outOfOrder |-> run.outOfOrder, message |-> message, reselected |-> run.reselected,
     published |-> published]

NoEnd == EndOf(NewRun, "none", Undefined, FALSE)

\* Deck.tsx lines 48-56: the state of a freshly mounted player.
InitialPlayer ==
    [slideIndex |-> 0, isMuted |-> FALSE, playing |-> FALSE,
     currentAudioUrl |-> Undefined, live |-> 0]

\* The variables of the functions and of the card examined on their own, which
\* a session leaves alone.
NotCalled == << >>

NothingCalled == arg = NotCalled /\ ret = NotCalled /\ quiz = NotCalled

AloneUnchanged == UNCHANGED << arg, ret, quiz >>

\* The page as it is before it loads.
PageInit ==
    /\ state = "INPUT"
    /\ competency = ""
    /\ generatedData = NoData
    /\ error = Undefined
    /\ hasInitialized = FALSE
    /\ effectFires \in {1, 2}
    /\ urlTopic \in {"", SharedTopic}
    /\ autoStart = [url |-> urlTopic, count |-> 0, topic |-> Undefined,
                    size |-> Undefined, voice |-> Undefined]
    /\ aistudio \in BOOLEAN
    /\ runs = EmptyBag
    /\ started = 0
    /\ ended = NoEnd
    /\ player = InitialPlayer
    /\ effectPc = "idle"
    /\ leaked = 0
    /\ crashed = FALSE

Init == PageInit /\ NothingCalled

\* One page, not yet loaded, beside which a function or the card is examined.
PageAtRest == PageInit /\ urlTopic = "" /\ ~aistudio /\ effectFires = 1

\* The session stands still while a function or the card is examined.
PageUnchanged ==
    UNCHANGED << state, competency, generatedData, error, hasInitialized, effectFires,
                 autoStart, urlTopic, aistudio, runs, started, ended, player, effectPc,
                 leaked, crashed >>

\* App.tsx line 248: the Deck is rendered in state DECK with a bundle.
DeckMounted(st, data) == st = "DECK" /\ data.present

\* React runs the mount effect, twice in a row under StrictMode, before it
\* handles any event.
Mounted == effectFires = 0

\* No handler or continuation runs inside the synchronous part of an effect;
\* after a render crash the page is gone and nothing more is observed.
Quiescent == Mounted /\ effectPc = "idle" /\ ~crashed

InFlight == BagToSet(runs)

\* The invocations in flight other than run.
Others(run) == runs (-) SetToBag({run})

With(rest, run) == rest (+) SetToBag({run})

----------------------------------------------------------------------------
(* Rendering: what a change of state / generatedData does to the player *)

\* App.tsx lines 245-261 with Deck.tsx lines 78-91 (mount, unmount cleanup)
\* and line 120 (the playAudio effect depends on data.audio).
Render(newState, newData, published) ==
    LET was == DeckMounted(state, generatedData)
        will == DeckMounted(newState, newData)
    IN  /\ AloneUnchanged
        /\ state' = newState
        /\ generatedData' = newData
        /\ IF will /\ ~was
           THEN /\ player' = InitialPlayer
                /\ effectPc' = "reset"
                /\ leaked' = leaked
                /\ crashed' = crashed
           ELSE IF was /\ ~will
           THEN \* cleanup pauses the element; the object URL is not revoked
                /\ player' = InitialPlayer
                /\ effectPc' = "idle"
                /\ leaked' = leaked + player.live
                /\ crashed' = crashed
           ELSE IF was /\ will /\ published
           THEN IF player.slideIndex < Len(newData.deck)
                THEN /\ player' = player
                     /\ effectPc' = "reset"
                     /\ leaked' = leaked
                     /\ crashed' = crashed
                ELSE \* Deck.tsx lines 59 and 123: slides[slideIndex] is undefined
                     \* and renderSlideContent throws; the player is torn down
                     \* with the index it had, its object URL unrevoked
                     /\ player' = [player EXCEPT !.playing = FALSE]
                     /\ effectPc' = "idle"
                     /\ leaked' = leaked
                     /\ crashed' = TRUE
           ELSE UNCHANGED << player, effectPc, leaked, crashed >>

SessionUnchanged ==
    /\ AloneUnchanged
    /\ UNCHANGED << state, generatedData, error, player, effectPc, leaked, crashed >>

----------------------------------------------------------------------------
(* App.tsx: generateContent *)

\* Lines 36-42: enter LOADING, clear the error, call generateDeckText.
EnterLoading(rest, run) ==
    /\ error' = Undefined
    /\ Render("LOADING", generatedData, FALSE)
    /\ runs' = With(rest, [run EXCEPT !.pc = "deck", !.deckCalls = @ + 1])
    /\ UNCHANGED ended

\* The invocation returns or its promise rejects.
Finish(rest, run, how, message, published) ==
    /\ runs' = rest
    /\ ended' = EndOf(run, how, message, published)

\* Lines 32-34 with handleApiKeyCheck lines 19-22: a new invocation.
generateContent ==
    /\ started' = started + 1
    /\ IF aistudio
       THEN /\ runs' = With(runs, [NewRun EXCEPT !.pc = "hasKey"])
            /\ UNCHANGED ended
            /\ SessionUnchanged
       ELSE EnterLoading(runs, NewRun)

\* Line 11: useState<VoiceAccent>('American'), the value the closure of the
\* first render passes to generateSlideAudio (line 67).
InitialVoiceAccent == "American"

\* Variant of the guard that ignores the ref.
NeverInitialized(ref) == FALSE

\* Line 112: the guard of the initial effect.
AlreadyInitialized(ref) == ref

\* Lines 111-123: one firing of the initial effect.
InitEffect ==
    /\ effectFires > 0
    /\ effectFires' = effectFires - 1
    /\ IF AlreadyInitialized(hasInitialized)
       THEN /\ UNCHANGED << hasInitialized, autoStart, competency, runs, started, ended >>
            /\ SessionUnchanged
       ELSE /\ hasInitialized' = TRUE
            /\ IF urlTopic # ""
               THEN /\ competency' = urlTopic
                    /\ autoStart' = [autoStart EXCEPT !.count = @ + 1,
                                                      !.topic = urlTopic,
                                                      !.size = "1K",
                                                      !.voice = InitialVoiceAccent]
                    /\ generateContent
               ELSE /\ UNCHANGED << autoStart, competency, runs, started, ended >>
                    /\ SessionUnchanged
    /\ UNCHANGED << urlTopic, aistudio >>

\* Line 152: typing in the topic box.
SetCompetency(t) ==
    /\ Mounted /\ Quiescent
    /\ state = "INPUT"
    /\ t # competency
    /\ competency' = t
    /\ SessionUnchanged
    /\ UNCHANGED << hasInitialized, effectFires, autoStart, urlTopic, aistudio, runs, started, ended >>

\* Lines 125-129: the form is rendered in state INPUT only.
HandleSubmit ==
    /\ Mounted /\ Quiescent
    /\ state = "INPUT"
    /\ Trim(competency) # ""
    /\ started < MaxRuns
    /\ generateContent
    /\ UNCHANGED << competency, hasInitialized, effectFires, autoStart, urlTopic, aistudio >>

\* Lines 22-29: hasSelectedApiKey settles.
HasSelectedApiKeySettles(run) ==
    /\ Quiescent
    /\ run.pc = "hasKey"
    /\ \E result \in {"true", "false", "throws"} :
          CASE result = "true" -> EnterLoading(Others(run), run)
            [] result = "false" ->
                 /\ runs' = With(Others(run), [run EXCEPT !.pc = "selectKey"])
                 /\ UNCHANGED ended
                 /\ SessionUnchanged
            [] result = "throws" ->
                 \* the await of line 34 is outside the try
                 /\ Finish(Others(run), run, "rejected", Undefined, FALSE)
                 /\ SessionUnchanged
    /\ UNCHANGED << competency, hasInitialized, effectFires, autoStart, urlTopic, aistudio, started >>

\* Lines 24-26: the key dialog opened by handleApiKeyCheck settles.
OpenSelectKeySettles(run) ==
    /\ Quiescent
    /\ run.pc = "selectKey"
    /\ \E result \in {"returns", "throws"} :
          IF result = "returns"
          THEN EnterLoading(Others(run), run)
          ELSE /\ Finish(Others(run), run, "rejected", Undefined, FALSE)
               /\ SessionUnchanged
    /\ UNCHANGED << competency, hasInitialized, effectFires, autoStart, urlTopic, aistudio, started >>

\* Lines 103-107: show the message and enter ERROR.
ShowError(rest, run, message) ==
    /\ error' = message
    /\ Render("ERROR", generatedData, FALSE)
    /\ Finish(rest, run, "failed", message, FALSE)

\* Lines 98-108: the catch block, for an error with the given message.
Catch(rest, run, message) ==
    IF IncludesNotFound(message) /\ aistudio
    THEN \* line 102: await window.aistudio.openSelectKey()
         /\ runs' = With(rest, [run EXCEPT !.pc = "reselect", !.reselected = TRUE])
         /\ UNCHANGED ended
         /\ SessionUnchanged
    ELSE ShowError(rest, run, ErrorMessageFor(message))

\* How the deck call ended, as the catch block tells the cases apart.
DeckResultOf(res) ==
    IF res.ok THEN (IF res.hasSlides THEN "deck" ELSE "noSlides")
    ELSE IF IncludesNotFound(res.message) THEN "notFound" ELSE "other"

\* Variant that starts the asset calls of a stock deck when the deck call failed.
LaunchAnyway(run, res) ==
    LET deck == IF res.ok /\ res.hasSlides THEN res.deck ELSE DeckA
    IN  [run EXCEPT !.pc = IF res.ok /\ res.hasSlides THEN "assets" ELSE @,
                    !.deck = deck,
                    !.images = imagePromises(deck),
                    !.audio = audioPromises(deck)]

\* Lines 44-73: what generateContent starts once the deck call has settled
\* with res: every asset call on a deck, nothing otherwise.
Launch(run, res) ==
    IF res.ok /\ res.hasSlides
    THEN [run EXCEPT !.pc = "assets", !.deck = res.deck,
                     !.images = imagePromises(res.deck),
                     !.audio = audioPromises(res.deck)]
    ELSE run

\* Lines 42-73: generateDeckText settles.
DeckTextSettles(run) ==
    /\ Quiescent
    /\ run.pc = "deck"
    /\ \E resp \in DeckResponses :
          LET res == generateDeckText(resp)
              next == Launch([run EXCEPT !.deckResult = DeckResultOf(res)], res)
          IN  IF ~res.ok
              THEN Catch(Others(run), next, res.message)
              ELSE IF ~res.hasSlides
              THEN \* line 45: deckContent.slides is undefined
                   Catch(Others(run), next,
                         "Cannot read properties of undefined (reading 'map')")
              ELSE /\ runs' = With(Others(run), next)
                   /\ UNCHANGED ended
                   /\ SessionUnchanged
    /\ UNCHANGED << competency, hasInitialized, effectFires, autoStart, urlTopic, aistudio, started >>

\* Promise k of a group settles while an earlier promise of the group is pending.
Overtakes(promises, k) == \E j \in 1..(k - 1) : promises[j].value = Pending

\* Lines 55-60: the image call of promise k settles.
ImageSettles(run, k) ==
    /\ Quiescent
    /\ run.pc = "assets"
    /\ k \in 1..Len(run.images)
    /\ run.images[k].called
    /\ run.images[k].value = Pending
    /\ \E resp \in AssetResponses :
          LET index == run.images[k].index
              value == ImageGuard(generateDeckImage(index, resp))
              next == [run EXCEPT !.images[k].value = value,
                                  !.outOfOrder = @ \/ Overtakes(run.images, k)]
          IN  IF value = Rejected
              THEN \* Promise.all rejects and the catch block runs
                   Catch(Others(run), next, "An API Key must be set when running in a browser")
              ELSE /\ runs' = With(Others(run), next)
                   /\ UNCHANGED ended
                   /\ SessionUnchanged
    /\ UNCHANGED << competency, hasInitialized, effectFires, autoStart, urlTopic, aistudio, started >>

\* Lines 67-72: the audio call of promise k settles.
AudioSettles(run, k) ==
    /\ Quiescent
    /\ run.pc = "assets"
    /\ k \in 1..Len(run.audio)
    /\ run.audio[k].called
    /\ run.audio[k].value = Pending
    /\ \E resp \in AssetResponses :
          LET index == run.audio[k].index
              value == AudioGuard(generateSlideAudio(index, resp))
              next == [run EXCEPT !.audio[k].value = value,
                                  !.outOfOrder = @ \/ Overtakes(run.audio, k)]
          IN  IF value = Rejected
              THEN Catch(Others(run), next, "An API Key must be set when running in a browser")
              ELSE /\ runs' = With(Others(run), next)
                   /\ UNCHANGED ended
                   /\ SessionUnchanged
    /\ UNCHANGED << competency, hasInitialized, effectFires, autoStart, urlTopic, aistudio, started >>

\* Lines 76-97: both groups have settled; fold, publish, enter DECK.
Assemble(run) ==
    /\ Quiescent
    /\ run.pc = "assets"
    /\ AllSettled(run.images, run.audio)
    /\ Render("DECK", Bundle(run.deck, run.images, run.audio), TRUE)
    /\ Finish(Others(run), run, "done", Undefined, TRUE)
    /\ UNCHANGED << competency, error, hasInitialized, effectFires, autoStart, urlTopic, aistudio, started >>

\* Lines 102-107: the key dialog opened by the catch block settles.
ReselectSettles(run) ==
    /\ Quiescent
    /\ run.pc = "reselect"
    /\ \E result \in {"returns", "throws"} :
          IF result = "returns"
          THEN ShowError(Others(run), run, ConfigMessage)
          ELSE \* the throw leaves the catch block: no message, no ERROR
               /\ Finish(Others(run), run, "rejected", Undefined, FALSE)
               /\ SessionUnchanged
    /\ UNCHANGED << competency, hasInitialized, effectFires, autoStart, urlTopic, aistudio, started >>

\* Line 234: Try Again.
TryAgain ==
    /\ Mounted /\ Quiescent
    /\ state = "ERROR"
    /\ Render("INPUT", generatedData, FALSE)
    /\ UNCHANGED << competency, error, hasInitialized, effectFires, autoStart, urlTopic, aistudio, runs,
                    started, ended >>

----------------------------------------------------------------------------
(* Deck.tsx: the player *)

\* Lines 12-39: the object URL of the WAV blob built from a PCM payload.
pcmToWavBlob(base64PCM) ==
    CASE base64PCM = "pcm0" -> "blob:wav(pcm0)"
      [] base64PCM = "pcm1" -> "blob:wav(pcm1)"

\* Lines 95-98: pause the element and rewind it.
StopPlayback(p) == [p EXCEPT !.playing = FALSE]

\* Variant that leaves the previous object URL unrevoked.
KeepUrl(p) == p

\* Lines 100-103: revoke the object URL the ref holds.
ReleaseUrl(p) ==
    IF p.currentAudioUrl # Undefined
    THEN [p EXCEPT !.live = @ - 1, !.currentAudioUrl = Undefined]
    ELSE p

\* Lines 105-117: unless muted, build the URL of the slide's payload and play;
\* allowed is FALSE when the browser blocks autoplay.
StartPlayback(p, pcmData, allowed) ==
    IF p.isMuted THEN p
    ELSE IF Truthy(pcmData)
    THEN [p EXCEPT !.live = @ + 1, !.currentAudioUrl = pcmToWavBlob(pcmData),
                   !.playing = allowed]
    ELSE p

PlayerStep(nextPlayer, nextPc) ==
    /\ AloneUnchanged
    /\ player' = nextPlayer
    /\ effectPc' = nextPc
    /\ UNCHANGED << state, competency, generatedData, error, hasInitialized, effectFires, autoStart, urlTopic,
                    aistudio, runs, started, ended, leaked, crashed >>

\* Lines 94-103: the effect stops the element and releases the URL.
PlayAudioReset ==
    /\ effectPc = "reset"
    /\ PlayerStep(ReleaseUrl(StopPlayback(player)), "start")

\* Lines 105-117: the effect starts the slide's narration.
PlayAudioStart ==
    /\ effectPc = "start"
    /\ \E allowed \in BOOLEAN :
          PlayerStep(StartPlayback(player, Lookup(generatedData.audio, player.slideIndex),
                                   allowed), "idle")

\* The audio element reaches the end of the clip.
AudioEnded ==
    /\ Quiescent
    /\ DeckMounted(state, generatedData)
    /\ player.playing
    /\ PlayerStep([player EXCEPT !.playing = FALSE], "idle")

\* Line 212: the mute button; the playAudio effect depends on isMuted.
ToggleMute ==
    /\ Quiescent
    /\ DeckMounted(state, generatedData)
    /\ PlayerStep([player EXCEPT !.isMuted = ~@], "reset")

\* Line 250: PREV, disabled on the first slide.
PrevSlide ==
    /\ Quiescent
    /\ DeckMounted(state, generatedData)
    /\ player.slideIndex > 0
    /\ PlayerStep([player EXCEPT !.slideIndex = @ - 1], "reset")

\* App.tsx lines 252-259: onRestart.
OnRestart ==
    /\ competency' = ""
    /\ urlTopic' = ""
    /\ Render("INPUT", generatedData, FALSE)
    /\ UNCHANGED << error, hasInitialized, effectFires, autoStart, aistudio, runs, started, ended >>

\* Line 258: NEXT, which restarts on the last slide.
NextSlide ==
    /\ Quiescent
    /\ DeckMounted(state, generatedData)
    /\ IF player.slideIndex = Len(generatedData.deck) - 1
       THEN OnRestart
       ELSE PlayerStep([player EXCEPT !.slideIndex = @ + 1], "reset")

\* Line 206: EXIT.
Exit ==
    /\ Quiescent
    /\ DeckMounted(state, generatedData)
    /\ OnRestart

----------------------------------------------------------------------------
(* Specification *)

Next ==
    \/ InitEffect
    \/ \E t \in Topics : SetCompetency(t)
    \/ HandleSubmit
    \/ \E run \in InFlight : HasSelectedApiKeySettles(run)
    \/ \E run \in InFlight : OpenSelectKeySettles(run)
    \/ \E run \in InFlight : DeckTextSettles(run)
    \/ \E run \in InFlight : \E k \in 1..Len(run.images) : ImageSettles(run, k)
    \/ \E run \in InFlight : \E k \in 1..Len(run.audio) : AudioSettles(run, k)
    \/ \E run \in InFlight : Assemble(run)
    \/ \E run \in InFlight : ReselectSettles(run)
    \/ TryAgain
    \/ PlayAudioReset
    \/ PlayAudioStart
    \/ AudioEnded
    \/ ToggleMute
    \/ PrevSlide
    \/ NextSlide
    \/ Exit

Spec == Init /\ [][Next]_vars

----------------------------------------------------------------------------
(* Properties *)

\* The positions at which a group of settled promises holds a payload, and
\* the payload held for a position.
Succeeded(promises) ==
    {promises[j].index : j \in {n \in 1..Len(promises) : Truthy(promises[n].value)}}

Failed(promises) ==
    {promises[j].index : j \in {n \in 1..Len(promises) : ~Truthy(promises[n].value)}}

PayloadAt(promises, i) ==
    LET slot == CHOOSE j \in 1..Len(promises) : promises[j].index = i
    IN  promises[slot].value

\* An invocation that is in flight before the step and not after it.
Leaves(run) == CopiesIn(run, runs') < CopiesIn(run, runs)

\* C1: failure isolation.  Once the deck call has returned a deck, whichever
\* image and audio calls fail, the invocation does not finish before every call
\* has settled, it finishes by entering DECK, and the published maps hold
\* exactly the payload of every call that succeeded and no entry for a call
\* that failed.
C1_FailureIsolation ==
    [][\A run \in InFlight :
          (run.pc = "assets" /\ Leaves(run)) =>
             IF \/ \E k \in 1..Len(run.images) : run.images[k].value = Pending
                \/ \E k \in 1..Len(run.audio) : run.audio[k].value = Pending
             THEN BagCardinality(runs') = BagCardinality(runs)
             ELSE /\ state' = "DECK"
                  /\ ended'.how = "done"
                  /\ DOMAIN generatedData'.images = Succeeded(run.images)
                  /\ DOMAIN generatedData'.audio = Succeeded(run.audio)
                  /\ \A i \in Succeeded(run.images) :
                        generatedData'.images[i] = PayloadAt(run.images, i)
                  /\ \A i \in Succeeded(run.audio) :
                        generatedData'.audio[i] = PayloadAt(run.audio, i)
                  /\ \A i \in Failed(run.images) : i \notin DOMAIN generatedData'.images
                  /\ \A i \in Failed(run.audio) : i \notin DOMAIN generatedData'.audio
      ]_vars

\* A run over DeckB ended in DECK although the narration call of position 1
\* failed; position 0 kept its payload.
C1_Witness ==
    /\ state = "DECK"
    /\ ended.how = "done"
    /\ ended.audioCalls = 2
    /\ generatedData.deck = DeckB
    /\ DOMAIN generatedData.audio = {0}

\* The positions of a deck that are to get an image.
ImagePositions(deck) ==
    {i \in Positions(deck) :
        /\ SlideAt(deck, i).type = "DEEP_DIVE"
        /\ SlideAt(deck, i).visualPrompt # Undefined
        /\ SlideAt(deck, i).visualPrompt # ""}

\* The positions of a deck that carry a narration script.
ScriptPositions(deck) ==
    {i \in Positions(deck) :
        /\ SlideAt(deck, i).audioScript # Undefined
        /\ SlideAt(deck, i).audioScript # ""}

CallsFor(promises, i) ==
    Cardinality({k \in 1..Len(promises) : promises[k].index = i /\ promises[k].called})

\* C2: an image call is issued exactly once for every DeepDive position with a
\* non-empty visualPrompt and for no other position, and the keys of the
\* published image map lie in that set.
C2_ImageEligibility ==
    /\ \A run \in InFlight :
          /\ \A i \in Positions(run.deck) :
                CallsFor(run.images, i) = IF i \in ImagePositions(run.deck) THEN 1 ELSE 0
          /\ \A k \in 1..Len(run.images) : run.images[k].index \in Positions(run.deck)
    /\ DOMAIN generatedData.images \subseteq ImagePositions(generatedData.deck)

\* The image call of DeckA (position 1, behind an INTRO slide that carries a
\* prompt) has been issued and has returned its image.
C2_Witness ==
    \E run \in InFlight :
        /\ run.deck = DeckA
        /\ Calls(run.images) = 1
        /\ Succeeded(run.images) = {1}

\* C3: a narration call is issued exactly once for every position with a
\* non-empty script, whatever the slide's kind, and for no other position;
\* the published audio map has no entry at a position without a script.
C3_AudioPerScript ==
    /\ \A run \in InFlight :
          /\ \A i \in Positions(run.deck) :
                CallsFor(run.audio, i) = IF i \in ScriptPositions(run.deck) THEN 1 ELSE 0
          /\ \A k \in 1..Len(run.audio) : run.audio[k].index \in Positions(run.deck)
    /\ DOMAIN generatedData.audio \subseteq ScriptPositions(generatedData.deck)

\* DeckA in flight: the INTRO slide's narration was requested and returned,
\* the DeepDive slide with the empty script got no call.
C3_Witness ==
    \E run \in InFlight :
        /\ run.deck = DeckA
        /\ Calls(run.audio) = 1
        /\ Succeeded(run.audio) = {0}

\* C4: when the deck call fails, the invocation ends in ERROR, having made one
\* deck call, no image call, no audio call, and having published no bundle.
C4_DeckFailureAborts ==
    ended.deckResult \in {"notFound", "other"} =>
        /\ ended.how = "failed"
        /\ ended.deckCalls = 1
        /\ ended.imageCalls = 0
        /\ ended.audioCalls = 0
        /\ ~ended.published

\* C5: a deck failure whose message contains "Requested entity was not found"
\* ends in ERROR with the credentials message, the key dialog having been
\* opened again where the host offers one; any other deck failure ends in
\* ERROR with the generic message.
C5_ErrorVariants ==
    /\ ended.deckResult = "notFound" =>
          /\ ended.how = "failed"
          /\ ended.message = ConfigMessage
          /\ aistudio => ended.reselected
    /\ ended.deckResult = "other" =>
          /\ ended.how = "failed"
          /\ ended.message = GenericMessage
          /\ ~ended.reselected

\* C6: an image or audio call exists (in flight or settled) only in an
\* invocation whose single deck call has returned a deck; an invocation whose
\* deck call is pending or failed has issued none.
C6_DeckFirst ==
    /\ \A run \in InFlight :
          (Len(run.images) > 0 \/ Len(run.audio) > 0) =>
              /\ run.pc = "assets"
              /\ run.deckCalls = 1
              /\ run.deckResult = "deck"
    /\ ended.deckResult # "deck" => (ended.imageCalls = 0 /\ ended.audioCalls = 0)

\* An invocation over DeckA with its audio call settled and its image call in
\* flight.
C6_Witness ==
    \E run \in InFlight :
        /\ run.deck = DeckA
        /\ run.deckResult = "deck"
        /\ run.deckCalls = 1
        /\ run.images[1].called /\ run.images[1].value = Pending
        /\ run.audio[1].called /\ run.audio[1].value # Pending

\* C7: the bundle changes, and DECK is entered, only in the step in which an
\* invocation whose image and audio calls have all settled finishes; that step
\* publishes a bundle made of that invocation's deck and results alone, and
\* DECK is never held without a bundle.
C7_PublishOnce ==
    /\ [](state = "DECK" => generatedData.present)
    /\ [][(generatedData' # generatedData \/ (state' = "DECK" /\ state # "DECK")) =>
            \E run \in InFlight :
               /\ run.pc = "assets"
               /\ \A k \in 1..Len(run.images) : run.images[k].value # Pending
               /\ \A k \in 1..Len(run.audio) : run.audio[k].value # Pending
               /\ runs' = Others(run)
               /\ state' = "DECK"
               /\ generatedData'.present
               /\ generatedData'.deck = run.deck
               /\ DOMAIN generatedData'.images \subseteq Succeeded(run.images)
               /\ DOMAIN generatedData'.audio \subseteq Succeeded(run.audio)
      ]_vars

\* A second run published the bundle of DeckC, which has no assets, after the
\* player of an earlier bundle had played narration: nothing of it is left.
C7_Witness ==
    /\ state = "DECK"
    /\ started = 2
    /\ leaked = 1
    /\ ended.how = "done"
    /\ generatedData.deck = DeckC
    /\ DOMAIN generatedData.images = {}
    /\ DOMAIN generatedData.audio = {}

\* C8: the published maps are a function of the deck and of each call's own
\* outcome, whatever the order in which the calls settled: the image map has
\* exactly the positions whose image call succeeded and the audio map exactly
\* those whose audio call succeeded, and the entry at position i is the payload
\* returned to the request made for slide i.
C8_KeyedByPosition ==
    [][\A run \in InFlight :
          (/\ run.pc = "assets"
           /\ Leaves(run)
           /\ \A k \in 1..Len(run.images) : run.images[k].value # Pending
           /\ \A k \in 1..Len(run.audio) : run.audio[k].value # Pending) =>
             /\ generatedData'.deck = run.deck
             /\ generatedData'.images =
                   [i \in Succeeded(run.images) |-> DataUrl(ImageData(i))]
             /\ generatedData'.audio =
                   [i \in Succeeded(run.audio) |-> AudioData(i)]
      ]_vars

\* The narration of position 1 settled before that of position 0 and the
\* bundle holds both under their own positions.
C8_Witness ==
    /\ state = "DECK"
    /\ ended.how = "done"
    /\ ended.outOfOrder
    /\ DOMAIN generatedData.audio = {0, 1}

\* C9: every invocation that has finished has entered DECK or ERROR.
C9_RunTerminates == ended.how \in {"none", "done", "failed"}

\* C10: the mounted player holds at most one unrevoked object URL, and the
\* effect reaches the point where it starts a slide's playback only with the
\* element stopped and the previous URL revoked.
C10_SingleHandle ==
    /\ player.live <= 1
    /\ player.live = (IF player.currentAudioUrl = Undefined THEN 0 ELSE 1)
    /\ effectPc = "start" =>
          /\ ~player.playing
          /\ player.live = 0

\* On the second slide of a bundle with narration for both slides, the second
\* clip plays and one URL is live.
C10_Witness ==
    /\ state = "DECK"
    /\ DOMAIN generatedData.audio = {0, 1}
    /\ player.slideIndex = 1
    /\ player.playing
    /\ player.currentAudioUrl = "blob:wav(pcm1)"
    /\ player.live = 1

\* C11: once the session has left DECK (restart from the player, or a new
\* generation) it holds no bundle, and no object URL a player created is left
\* unrevoked.
C11_ReleasedOnLeave ==
    state # "DECK" =>
        /\ ~generatedData.present
        /\ leaked = 0
        /\ player.live = 0

\* C12: the session leaves ERROR only by Try Again, which moves it to INPUT
\* and touches no invocation; no other step changes the state out of ERROR.
C12_ErrorSticky ==
    [][state = "ERROR" =>
          \/ state' = "ERROR"
          \/ /\ state' = "INPUT"
             /\ runs' = runs
             /\ ended' = ended
             /\ started' = started
      ]_vars

\* C13: at most one invocation of generateContent is in flight at any time.
C13_SingleRun == BagCardinality(runs) <= 1

\* C14: once the page has loaded, the initial effect has started exactly one
\* invocation if the URL carried a topic, with that topic, size 1K and the
\* American voice, however many times the effect fired, and none if it did
\* not; while no invocation has been started the session is in INPUT; and a
\* submit of the form starts an invocation only if the topic box holds more
\* than whitespace.
C14_AutoStart ==
    /\ [](Mounted =>
            /\ autoStart.count = (IF autoStart.url # "" THEN 1 ELSE 0)
            /\ autoStart.count = 1 =>
                  /\ autoStart.topic = autoStart.url
                  /\ autoStart.size = "1K"
                  /\ autoStart.voice = "American"
            /\ started >= autoStart.count)
    /\ [](started = 0 => (state = "INPUT" /\ runs = EmptyBag))
    /\ [][(Mounted /\ started' # started) =>
             (started' = started + 1 /\ Trim(competency) # "")]_vars

\* The page was opened on a shared link, the mount effects are over and the one
\* auto-started invocation is in flight.
C14_Witness ==
    /\ Mounted
    /\ hasInitialized
    /\ autoStart.url = SharedTopic
    /\ autoStart.count = 1
    /\ started = 1
    /\ BagCardinality(runs) = 1
    /\ competency = SharedTopic

----------------------------------------------------------------------------
(* Deck.tsx: pcmToWavBlob, byte by byte *)

\* Longest PCM buffer decoded.
MaxPcmLen == 3

\* Byte values of a PCM buffer: the extremes and both sides of the sign bit.
PcmBytes == {0, 1, 128, 255}

RECURSIVE SeqsUpTo(_, _)
\* The sequences over S of length at most n.
SeqsUpTo(S, n) ==
    IF n = 0 THEN {<< >>}
    ELSE LET shorter == SeqsUpTo(S, n - 1)
         IN  shorter \cup {Append(q, x) : q \in shorter, x \in S}

PcmBuffers == SeqsUpTo(PcmBytes, MaxPcmLen)

\* The padding character of base64, beside the digits 0..63.
Pad == 64

RECURSIVE btoa(_)
\* The base64 text in which the audio service sends a PCM buffer (the inline
\* data of geminiService.ts line 152), as a sequence of digits.
btoa(bytes) ==
    IF Len(bytes) = 0 THEN << >>
    ELSE IF Len(bytes) = 1
    THEN << bytes[1] \div 4, (bytes[1] % 4) * 16, Pad, Pad >>
    ELSE IF Len(bytes) = 2
    THEN << bytes[1] \div 4, (bytes[1] % 4) * 16 + bytes[2] \div 16,
            (bytes[2] % 16) * 4, Pad >>
    ELSE << bytes[1] \div 4, (bytes[1] % 4) * 16 + bytes[2] \div 16,
            (bytes[2] % 16) * 4 + bytes[3] \div 64, bytes[3] % 64 >>
         \o btoa(SubSeq(bytes, 4, Len(bytes)))

RECURSIVE atob(_)
\* Line 13: atob, from base64 digits to a binary string (one char code per byte).
atob(digits) ==
    IF Len(digits) = 0 THEN << >>
    ELSE LET d == SubSeq(digits, 1, 4)
             rest == SubSeq(digits, 5, Len(digits))
         IN  IF d[3] = Pad
             THEN << d[1] * 4 + d[2] \div 16 >>
             ELSE IF d[4] = Pad
             THEN << d[1] * 4 + d[2] \div 16, (d[2] % 16) * 16 + d[3] \div 4 >>
             ELSE << d[1] * 4 + d[2] \div 16, (d[2] % 16) * 16 + d[3] \div 4,
                     (d[3] % 4) * 64 + d[4] >> \o atob(rest)

\* Line 15: new ArrayBuffer(n), zero-filled.
ArrayBuffer(n) == [i \in 1..n |-> 0]

\* DataView.setUint8 at a 0-based offset.
setUint8(view, offset, value) == [view EXCEPT ![offset + 1] = value % 256]

\* DataView.setUint16(offset, value, true): little-endian.
setUint16(view, offset, value) ==
    setUint8(setUint8(view, offset, value), offset + 1, value \div 256)

\* Variant that writes the four bytes most significant first.
setUint32BigEndian(view, offset, value) ==
    setUint8(setUint8(setUint8(setUint8(view, offset + 3, value),
                               offset + 2, value \div 256),
                      offset + 1, value \div 65536),
             offset, value \div 16777216)

\* DataView.setUint32(offset, value, true): little-endian.
setUint32(view, offset, value) ==
    setUint8(setUint8(setUint8(setUint8(view, offset, value),
                               offset + 1, value \div 256),
                      offset + 2, value \div 65536),
             offset + 3, value \div 16777216)

RECURSIVE writeString(_, _, _)
\* Lines 41-45: writeString, the char codes of string from offset on.
writeString(view, offset, string) ==
    IF Len(string) = 0 THEN view
    ELSE writeString(setUint8(view, offset, Head(string)), offset + 1, Tail(string))

\* The char codes of the four tags.
RIFF == << 82, 73, 70, 70 >>
WAVE == << 87, 65, 86, 69 >>
FMT == << 102, 109, 116, 32 >>
DATA == << 100, 97, 116, 97 >>

\* Lines 13-36: the bytes of the blob pcmToWavBlob makes its URL for.
pcmToWavBytes(base64PCM) ==
    LET binaryString == atob(base64PCM)
        len == Len(binaryString)
        v0 == ArrayBuffer(44 + len)
        v1 == writeString(v0, 0, RIFF)
        v2 == setUint32(v1, 4, 36 + len)
        v3 == writeString(v2, 8, WAVE)
        v4 == writeString(v3, 12, FMT)
        v5 == setUint32(v4, 16, 16)
        v6 == setUint16(v5, 20, 1)
        v7 == setUint16(v6, 22, 1)
        v8 == setUint32(v7, 24, 24000)
        v9 == setUint32(v8, 28, 24000 * 2)
        v10 == setUint16(v9, 32, 2)
        v11 == setUint16(v10, 34, 16)
        v12 == writeString(v11, 36, DATA)
        v13 == setUint32(v12, 40, len)
    IN  writeString(v13, 44, binaryString)

\* A PCM buffer arrives as base64.
WavInit ==
    /\ PageAtRest
    /\ quiz = NotCalled
    /\ ret = NotCalled
    /\ \E pcm \in PcmBuffers : arg = [pcm |-> pcm, base64 |-> btoa(pcm)]

\* Deck.tsx line 109: the player decodes it.
Decode ==
    /\ ret = NotCalled
    /\ ret' = pcmToWavBytes(arg.base64)
    /\ UNCHANGED << arg, quiz >>
    /\ PageUnchanged

WavNext == Decode

WavSpec == WavInit /\ [][WavNext]_vars

\* The unsigned little-endian number in the n bytes from a 0-based offset.
RECURSIVE LittleEndian(_, _, _)
LittleEndian(bytes, offset, n) ==
    IF n = 0 THEN 0
    ELSE bytes[offset + 1] + 256 * LittleEndian(bytes, offset + 1, n - 1)

\* C15: for a PCM buffer of L bytes the container has 44 + L bytes, declares
\* RIFF size 36 + L, fmt size 16, 1 channel, sample rate 24000, byte rate 48000,
\* block align 2, 16 bits per sample and data length L, all little-endian, and
\* its bytes from 44 on are the buffer's.
C15_WavHeader ==
    ret # NotCalled =>
        LET L == Len(arg.pcm)
        IN  /\ Len(ret) = 44 + L
            /\ LittleEndian(ret, 4, 4) = 36 + L
            /\ LittleEndian(ret, 16, 4) = 16
            /\ LittleEndian(ret, 22, 2) = 1
            /\ LittleEndian(ret, 24, 4) = 24000
            /\ LittleEndian(ret, 28, 4) = 48000
            /\ LittleEndian(ret, 32, 2) = 2
            /\ LittleEndian(ret, 34, 2) = 16
            /\ LittleEndian(ret, 40, 4) = L
            /\ \A i \in 0..(L - 1) : ret[44 + i + 1] = arg.pcm[i + 1]

\* A buffer of MaxPcmLen bytes with a high byte has been decoded.
C15_Witness ==
    /\ ret # NotCalled
    /\ arg # NotCalled
    /\ Len(arg.pcm) = MaxPcmLen
    /\ arg.pcm[1] = 255
    /\ Len(ret) = 44 + MaxPcmLen

----------------------------------------------------------------------------
(* geminiService.ts: the sanitization of a narration script *)

\* Longest script sanitized.
MaxTextLen == 3

\* The five symbols of lines 130-134, by name: U+03A3, U+0394, U+2260, U+2248,
\* U+00B1.  A text is a sequence of characters.
Symbols == {"Sigma", "Delta", "NotEqual", "Approx", "PlusMinus"}

\* Line 135: the character class of the markup that is stripped.
Markup == {"$", "#", "@", "*", "^", "{", "}", "[", "]"}

\* Characters that sanitization leaves alone.
Plain == {"a", " "}

Texts == SeqsUpTo(Symbols \cup Markup \cup Plain, MaxTextLen)

\* The spoken phrases of lines 130-134.
SumOf == << "s", "u", "m", " ", "o", "f", " " >>
ChangeIn == << "c", "h", "a", "n", "g", "e", " ", "i", "n", " " >>
IsNotEqualTo ==
    << "i", "s", " ", "n", "o", "t", " ", "e", "q", "u", "a", "l", " ", "t", "o", " " >>
IsApproximately ==
    << "i", "s", " ", "a", "p", "p", "r", "o", "x", "i", "m", "a", "t", "e", "l", "y", " " >>
PlusOrMinus ==
    << "p", "l", "u", "s", " ", "o", "r", " ", "m", "i", "n", "u", "s", " " >>

RECURSIVE replaceFirst(_, _, _)
\* Variant without the g flag: only the first occurrence is replaced.
replaceFirst(text, symbol, phrase) ==
    IF Len(text) = 0 THEN text
    ELSE IF Head(text) = symbol THEN phrase \o Tail(text)
    ELSE << Head(text) >> \o replaceFirst(Tail(text), symbol, phrase)

RECURSIVE replaceAll(_, _, _)
\* String.replace with a /g pattern of one character: every occurrence.
replaceAll(text, symbol, phrase) ==
    IF Len(text) = 0 THEN text
    ELSE (IF Head(text) = symbol THEN phrase ELSE << Head(text) >>)
         \o replaceAll(Tail(text), symbol, phrase)

\* Line 135: replace(/[...]/g, '').
strip(text, class) == SelectSeq(text, LAMBDA ch : ch \notin class)

\* Lines 129-135: cleanText.
sanitize(text) ==
    strip(replaceAll(replaceAll(replaceAll(replaceAll(replaceAll(text,
              "Sigma", SumOf),
              "Delta", ChangeIn),
              "NotEqual", IsNotEqualTo),
              "Approx", IsApproximately),
              "PlusMinus", PlusOrMinus),
          Markup)

\* A script is about to be narrated.
SanitizeInit ==
    /\ PageAtRest
    /\ quiz = NotCalled
    /\ ret = NotCalled
    /\ \E text \in Texts : arg = [text |-> text]

\* cleanText is computed from the script, and then once more from its own result.
Sanitize ==
    /\ Len(ret) < 2
    /\ ret' = Append(ret, sanitize(IF Len(ret) = 0 THEN arg.text ELSE ret[Len(ret)]))
    /\ UNCHANGED << arg, quiz >>
    /\ PageUnchanged

SanitizeNext == Sanitize

SanitizeSpec == SanitizeInit /\ [][SanitizeNext]_vars

\* What one character becomes.
Spoken(ch) ==
    CASE ch = "Sigma" -> SumOf
      [] ch = "Delta" -> ChangeIn
      [] ch = "NotEqual" -> IsNotEqualTo
      [] ch = "Approx" -> IsApproximately
      [] ch = "PlusMinus" -> PlusOrMinus
      [] ch \in Markup -> << >>
      [] OTHER -> << ch >>

RECURSIVE SpokenText(_)
SpokenText(text) ==
    IF Len(text) = 0 THEN << >> ELSE Spoken(Head(text)) \o SpokenText(Tail(text))

\* C16: sanitizing a text replaces each of the five symbols by its phrase and
\* deletes every markup character, the result holds none of them, and
\* sanitizing the result again returns it unchanged.
C16_SanitizeIdempotent ==
    /\ Len(ret) >= 1 =>
          /\ ret[1] = SpokenText(arg.text)
          /\ \A k \in 1..Len(ret[1]) : ret[1][k] \notin Symbols \cup Markup
    /\ Len(ret) = 2 => ret[2] = ret[1]

\* A text with a symbol twice and a markup character has been sanitized twice.
C16_Witness ==
    /\ arg # NotCalled
    /\ arg.text = << "Sigma", "[", "Sigma" >>
    /\ Len(ret) = 2
    /\ ret[1] = SumOf \o SumOf

----------------------------------------------------------------------------
(* geminiService.ts: the asset clients on their own *)

\* Most candidates in a response, and most parts in a candidate.
MaxCandidates == 2
MaxParts == 2

Candidates ==
    {Candidate(FALSE, << >>)}
        \cup {Candidate(TRUE, parts) : parts \in SeqsUpTo({"inline", "text"}, MaxParts)}

\* Every response within the bounds.
ClientResponses ==
    {SdkResponse, ErrorResponse}
        \cup {AssetResponse("ok", "ok", cs) : cs \in SeqsUpTo(Candidates, MaxCandidates)}

\* A caller is about to call one of the two clients for a slide position.
ClientInit ==
    /\ PageAtRest
    /\ quiz = NotCalled
    /\ ret = NotCalled
    /\ \E client \in {"image", "audio"}, i \in 0..1, resp \in ClientResponses :
          arg = [client |-> client, index |-> i, resp |-> resp]

\* The call settles: ret holds the value it returned, or Rejected if it threw.
CallClient ==
    /\ ret = NotCalled
    /\ ret' = << IF arg.client = "image"
                 THEN generateDeckImage(arg.index, arg.resp)
                 ELSE generateSlideAudio(arg.index, arg.resp) >>
    /\ UNCHANGED << arg, quiz >>
    /\ PageUnchanged

ClientNext == CallClient

ClientSpec == ClientInit /\ [][ClientNext]_vars

\* C17: neither asset client ever throws: on a failure, and on a response that
\* carries no inline data, it returns undefined.
C17_ClientsNeverThrow ==
    ret # NotCalled =>
        /\ ret[1] # Rejected
        /\ (\/ arg.resp.sdk = "throws"
            \/ arg.resp.call = "throws"
            \/ \A c \in 1..Len(arg.resp.candidates) :
                  \A k \in 1..Len(arg.resp.candidates[c].parts) :
                      arg.resp.candidates[c].parts[k] # "inline") => ret[1] = Undefined

----------------------------------------------------------------------------
(* Deck.tsx: navigation *)

----------------------------------------------------------------------------
(* QuizCard.tsx (src/unnamed/part_000) *)

\* Most options of a question.
MaxOptions == 4

\* selectedIndex is null, here the empty sequence, or << index >>.
NoSelection == << >>

\* Lines 9-10: the card of a question with n options as it mounts.  The deck
\* text may name any correctIndex, one past the options included.
NewQuiz(n, correctIndex) ==
    [options |-> n, correctIndex |-> correctIndex,
     selectedIndex |-> NoSelection, isSubmitted |-> FALSE]

\* Variant of handleSelect without the isSubmitted guard.
handleSelectAlways(q, index) == [q EXCEPT !.selectedIndex = << index >>]

\* Lines 12-15.
handleSelect(q, index) ==
    IF q.isSubmitted THEN q ELSE [q EXCEPT !.selectedIndex = << index >>]

\* Lines 17-20.
handleSubmit(q) ==
    IF q.selectedIndex = NoSelection THEN q ELSE [q EXCEPT !.isSubmitted = TRUE]

\* Lines 85-89: the verdict shown under the options.
Verdict(q) ==
    IF ~q.isSubmitted THEN "none"
    ELSE IF q.selectedIndex = << q.correctIndex >> THEN "correct"
    ELSE "incorrect"

QuizInit ==
    /\ PageAtRest
    /\ arg = NotCalled
    /\ ret = NotCalled
    /\ \E n \in 1..MaxOptions, correctIndex \in 0..MaxOptions :
          quiz = NewQuiz(n, correctIndex)

\* Line 54: a click on option index, whether or not the button is disabled.
SelectOption(index) ==
    /\ index \in 0..(quiz.options - 1)
    /\ quiz' = handleSelect(quiz, index)
    /\ UNCHANGED << arg, ret >>
    /\ PageUnchanged

\* Line 72: a click on Check Answer, whether or not the button is disabled.
CheckAnswer ==
    /\ quiz' = handleSubmit(quiz)
    /\ UNCHANGED << arg, ret >>
    /\ PageUnchanged

QuizNext ==
    \/ \E index \in 0..(MaxOptions - 1) : SelectOption(index)
    \/ CheckAnswer

QuizSpec == QuizInit /\ [][QuizNext]_vars

\* C19: the card starts unsubmitted with no selection; Check Answer without a
\* selection changes nothing; while unsubmitted every option can be selected,
\* again and again; once submitted the card stays submitted and its selection
\* never changes; the verdict is "correct" exactly when the selected index is
\* the question's correctIndex.
C19_QuizStateMachine ==
    /\ (~quiz.isSubmitted /\ quiz.selectedIndex = NoSelection)
    /\ [](/\ quiz.isSubmitted => quiz.selectedIndex # NoSelection
          /\ quiz.selectedIndex = NoSelection => handleSubmit(quiz) = quiz
          /\ ~quiz.isSubmitted =>
                \A index \in 0..(quiz.options - 1) :
                    handleSelect(quiz, index).selectedIndex = << index >>
          /\ quiz.isSubmitted =>
                (Verdict(quiz) = "correct") = (quiz.selectedIndex[1] = quiz.correctIndex)
          /\ ~quiz.isSubmitted => Verdict(quiz) = "none")
    /\ [][/\ quiz.isSubmitted => quiz' = quiz
          /\ quiz.selectedIndex = NoSelection => ~quiz'.isSubmitted
          /\ quiz'.options = quiz.options
          /\ quiz'.correctIndex = quiz.correctIndex
      ]_vars

\* A card with several options was answered wrongly and submitted; the wrong
\* selection stands.
C19_Witness ==
    /\ quiz # NotCalled
    /\ quiz.options = 3
    /\ quiz.correctIndex = 2
    /\ quiz.isSubmitted
    /\ quiz.selectedIndex = << 0 >>
    /\ Verdict(quiz) = "incorrect"

============================================================================
